---- MODULE Spec2Model ----
(***************************************************************************)
(* Model of src/app.py: a Streamlit script over data/equipment.csv.        *)
(*                                                                         *)
(* One script run = one action.  Every run starts with load_data (cached), *)
(* recomputes the derived columns (lines 47-48), filters and draws the     *)
(* views (lines 58-113), and then executes at most one handler (add_form,  *)
(* the two buttons of tab_edit, edit_form); every handler ends in          *)
(* save_data, which rewrites the whole CSV and clears the cache.  The      *)
(* script runs top to bottom: an exception raised on the way stops the run *)
(* there, so a handler runs only in a run that got as far as its widget.   *)
(*                                                                         *)
(* Text is a sequence of one-character strings, so that strip(), lower()   *)
(* and the substring search are computed.  A date value is a record:       *)
(* Timestamp(n), n the number of days since 2024-01-01 (all Timestamps of  *)
(* the program are at midnight), NaT, or None.  A cell of the CSV keeps    *)
(* the text that to_csv wrote; read_csv's dtype inference is modelled for  *)
(* the five free-text columns.  photo is always written as "" (no upload). *)
(***************************************************************************)
EXTENDS Integers, Sequences, FiniteSets, TLC

VARIABLES file, cache, last, frame, page

vars == <<file, cache, last, frame, page>>

\* Largest number of records the table grows to.
MaxRecords == 2

---------------------------------------------------------------------------
(* Sequences *)

RECURSIVE SelectIdx(_, _, _)
\* The indices i..Len(s) of s whose element is in keep, ascending.
SelectIdx(s, keep, i) ==
    IF i > Len(s) THEN << >>
    ELSE IF i \in keep THEN <<i>> \o SelectIdx(s, keep, i + 1)
    ELSE SelectIdx(s, keep, i + 1)

\* Boolean-mask row selection df[mask]: the rows at the indices in keep, in order.
Rows(s, keep) == LET ix == SelectIdx(s, keep, 1) IN [j \in 1..Len(ix) |-> s[ix[j]]]

Max(S) == CHOOSE x \in S : \A y \in S : y <= x

---------------------------------------------------------------------------
(* Calendar: datetime / Timestamp arithmetic and "%Y-%m-%d" *)

IsLeap(y) == (y % 4 = 0 /\ y % 100 # 0) \/ y % 400 = 0

YearLen(y) == IF IsLeap(y) THEN 366 ELSE 365

MonthLen(y, m) ==
    IF m = 2 THEN (IF IsLeap(y) THEN 29 ELSE 28)
    ELSE IF m \in {4, 6, 9, 11} THEN 30 ELSE 31

RECURSIVE DaysBeforeYear(_)
DaysBeforeYear(y) == IF y <= 2024 THEN 0 ELSE YearLen(y - 1) + DaysBeforeYear(y - 1)

RECURSIVE DaysBeforeMonth(_, _)
DaysBeforeMonth(y, m) == IF m <= 1 THEN 0 ELSE MonthLen(y, m - 1) + DaysBeforeMonth(y, m - 1)

ValidCivil(y, m, d) == y >= 2024 /\ m \in 1..12 /\ d >= 1 /\ d <= MonthLen(y, m)

\* Days since 2024-01-01 of the civil date y-m-d.
DaysFromCivil(y, m, d) == DaysBeforeYear(y) + DaysBeforeMonth(y, m) + (d - 1)

RECURSIVE CivilMonth(_, _, _)
CivilMonth(y, n, m) ==
    IF n < MonthLen(y, m) THEN <<y, m, n + 1>> ELSE CivilMonth(y, n - MonthLen(y, m), m + 1)

RECURSIVE CivilYear(_, _)
CivilYear(n, y) == IF n < YearLen(y) THEN CivilMonth(y, n, 1) ELSE CivilYear(n - YearLen(y), y + 1)

\* <<y, m, d>> of day n (n >= 0).
CivilFromDays(n) == CivilYear(n, 2024)

\* A date value of a DataFrame cell.
Timestamp(n) == [k |-> "Timestamp", v |-> n]

NaT == [k |-> "NaT", v |-> 0]

None == [k |-> "None", v |-> 0]

\* pd.isna / pd.notna on a date value
isna(x) == x.k # "Timestamp"

\* Series.dt.strftime("%Y-%m-%d"): the ISO fields of a Timestamp, NaN (an empty cell) for NaT.
strftime(ts) == IF isna(ts) THEN << >> ELSE CivilFromDays(ts.v)

\* pd.to_datetime(cell, errors="coerce"): a valid ISO date parses, anything else is NaT.
to_datetime(cell) ==
    IF Len(cell) = 3 /\ ValidCivil(cell[1], cell[2], cell[3])
    THEN Timestamp(DaysFromCivil(cell[1], cell[2], cell[3]))
    ELSE NaT

\* datetime.today().date(), as a day number.  The runs of one behaviour share a day.
today == DaysFromCivil(2024, 6, 20)

---------------------------------------------------------------------------
(* Text *)

IsSpace(c) == c = " "

IsDigit(c) == c \in {"0", "1", "2", "3", "4", "5", "6", "7", "8", "9"}

RECURSIVE lstrip(_)
lstrip(s) == IF s # << >> /\ IsSpace(Head(s)) THEN lstrip(Tail(s)) ELSE s

RECURSIVE rstrip(_)
rstrip(s) ==
    IF s # << >> /\ IsSpace(s[Len(s)]) THEN rstrip(SubSeq(s, 1, Len(s) - 1)) ELSE s

\* str.strip()
strip(s) == rstrip(lstrip(s))

LowerChar(c) ==
    CASE c = "A" -> "a"
      [] c = "B" -> "b"
      [] c = "P" -> "p"
      [] OTHER -> c

\* str.lower(), on the letters the model uses.
lower(s) == [i \in 1..Len(s) |-> LowerChar(s[i])]

\* s contains sub as a substring (the pattern has no regex metacharacter).
contains(s, sub) ==
    \E i \in 0..(Len(s) - Len(sub)) : SubSeq(s, i + 1, i + Len(sub)) = sub

---------------------------------------------------------------------------
(* Cells.  In the CSV a text cell is its characters (<< >> is an empty      *)
(* cell); in a DataFrame a cell is [k, v]: k the kind of value ("str",     *)
(* "nan", "int", "float") and v the text to_csv writes for it.             *)

NaN == [k |-> "nan", v |-> << >>]

Str(s) == [k |-> "str", v |-> s]

IsIntLit(s) == s # << >> /\ \A i \in 1..Len(s) : IsDigit(s[i])

IsFloatLit(s) ==
    \E p \in 1..Len(s) :
        /\ s[p] = "."
        /\ Len(s) > 1
        /\ \A i \in (1..Len(s)) \ {p} : IsDigit(s[i])

IsNumLit(s) == IsIntLit(s) \/ IsFloatLit(s)

RECURSIVE StripZerosLeft(_)
StripZerosLeft(s) == IF Len(s) > 1 /\ Head(s) = "0" THEN StripZerosLeft(Tail(s)) ELSE s

RECURSIVE StripZerosRight(_)
StripZerosRight(s) ==
    IF Len(s) > 1 /\ s[Len(s)] = "0" THEN StripZerosRight(SubSeq(s, 1, Len(s) - 1)) ELSE s

\* The text of the int64 parsed from an integer literal: "007" is 7.
IntText(s) == StripZerosLeft(s)

DotPos(s) == CHOOSE p \in 1..Len(s) : s[p] = "."

\* The text (repr) of the float64 parsed from a numeric literal: "07" is 7.0.
FloatText(s) ==
    IF IsIntLit(s) THEN IntText(s) \o <<".", "0">>
    ELSE LET p == DotPos(s)
             whole == IF p = 1 THEN <<"0">> ELSE StripZerosLeft(SubSeq(s, 1, p - 1))
             frac == IF p = Len(s) THEN <<"0">> ELSE StripZerosRight(SubSeq(s, p + 1, Len(s)))
         IN whole \o <<".">> \o frac

\* read_csv's dtype for a column of text cells: a column whose non-empty cells
\* are all numbers is numeric (float64 when a cell is empty or has a point),
\* an empty table has object columns, an all-empty column is float64.
InferDtype(cells) ==
    LET filled == {i \in 1..Len(cells) : cells[i] # << >>} IN
    IF Len(cells) = 0 THEN "object"
    ELSE IF \A i \in filled : IsIntLit(cells[i])
         THEN (IF Cardinality(filled) = Len(cells) THEN "int64" ELSE "float64")
    ELSE IF \A i \in filled : IsNumLit(cells[i]) THEN "float64"
    ELSE "object"

\* One cell of a text column as read_csv returns it under the column's dtype.
ReadText(cell, dtype) ==
    IF cell = << >> THEN NaN
    ELSE IF dtype = "int64" THEN [k |-> "int", v |-> IntText(cell)]
    ELSE IF dtype = "float64" THEN [k |-> "float", v |-> FloatText(cell)]
    ELSE Str(cell)

\* The status column holds words, never numbers: an empty cell is NaN.
ReadStatus(cell) == IF cell = "" THEN [k |-> "nan", v |-> ""] ELSE [k |-> "str", v |-> cell]

\* The dtype of a loaded text column, from its cells.
Dtype(cells) ==
    IF Len(cells) = 0 \/ \E i \in 1..Len(cells) : cells[i].k = "str" THEN "object"
    ELSE IF \A i \in 1..Len(cells) : cells[i].k = "int" THEN "int64"
    ELSE "float64"

\* An interval_days cell of the CSV: [k |-> "num", v |-> the number in tenths],
\* an empty cell, or text that is no number.
Num(tenths) == [k |-> "num", v |-> tenths]

Blank == [k |-> "blank", v |-> 0]

Junk == [k |-> "junk", v |-> 0]

\* pd.to_numeric(cell, errors="coerce").fillna(0): the value in tenths.
to_numeric_fillna(cell) == IF cell.k = "num" THEN cell.v ELSE 0

\* astype(int) of a float: truncation toward zero.
astype_int(tenths) == IF tenths >= 0 THEN tenths \div 10 ELSE -((-tenths) \div 10)


---------------------------------------------------------------------------
(* The table *)

\* The columns load_data gives a new file (lines 17-20).
CanonicalColumns ==
    <<"id", "name", "model", "serial", "last_service_date", "interval_days",
      "consumables", "notes", "photo", "status">>

\* The free-text columns: the ones the search looks at (lines 62-66).
TextColumns == {"name", "model", "serial", "consumables", "notes"}

NoFile == [exists |-> FALSE, columns |-> << >>, rows |-> << >>]

EmptyFile == [exists |-> TRUE, columns |-> CanonicalColumns, rows |-> << >>]

NoCache == [valid |-> FALSE, columns |-> << >>, rows |-> << >>]

\* The cells of column c, top to bottom.
Column(rows, c) == [i \in 1..Len(rows) |-> rows[i][c]]

\* pd.read_csv and the type fixes of load_data (lines 21-28).
read_csv(f) ==
    LET n == Len(f.rows)
        dtype == [c \in TextColumns |-> InferDtype(Column(f.rows, c))]
        noIds == \A i \in 1..n : f.rows[i].id = << >>
    IN [columns |-> f.columns,
        rows |-> [i \in 1..n |->
            [id |-> IF noIds THEN <<i>> ELSE f.rows[i].id,
             name |-> ReadText(f.rows[i].name, dtype["name"]),
             model |-> ReadText(f.rows[i].model, dtype["model"]),
             serial |-> ReadText(f.rows[i].serial, dtype["serial"]),
             consumables |-> ReadText(f.rows[i].consumables, dtype["consumables"]),
             notes |-> ReadText(f.rows[i].notes, dtype["notes"]),
             last_service_date |-> to_datetime(f.rows[i].last_service_date),
             interval_days |-> astype_int(to_numeric_fillna(f.rows[i].interval_days)),
             status |-> ReadStatus(f.rows[i].status)]]]

\* load_data under st.cache_data: a cached value is returned as it is; otherwise
\* the file is created if missing, read, and the result cached.
load_data(f, c) ==
    IF c.valid
    THEN [file |-> f, cache |-> c, df |-> [columns |-> c.columns, rows |-> c.rows]]
    ELSE LET g == IF f.exists THEN f ELSE EmptyFile
             d == read_csv(g)
         IN [file |-> g,
             cache |-> [valid |-> TRUE, columns |-> d.columns, rows |-> d.rows],
             df |-> d]

\* df.to_csv(path, index=False): every column of the frame, a cell's text, NaN as
\* an empty cell.  The cells of the two derived columns are not kept: the next run
\* overwrites them (lines 47-48) before anything reads them.
to_csv(t) ==
    [exists |-> TRUE,
     columns |-> t.columns,
     rows |-> [i \in 1..Len(t.rows) |->
        [id |-> t.rows[i].id,
         name |-> t.rows[i].name.v,
         model |-> t.rows[i].model.v,
         serial |-> t.rows[i].serial.v,
         consumables |-> t.rows[i].consumables.v,
         notes |-> t.rows[i].notes.v,
         last_service_date |-> t.rows[i].last_service_date,
         interval_days |-> Num(10 * t.rows[i].interval_days),
         status |-> t.rows[i].status.v]]]

\* A save that leaves the cache as it is.
save_data_keeps_cache(t, c) == [file |-> to_csv(t), cache |-> c]

\* save_data (lines 30-32): c is the cache at the time of the call.
save_data(t, c) == [file |-> to_csv(t), cache |-> NoCache]

\* next_service_date (lines 34-37): what the function returns for one row.
next_service_date(row) ==
    IF isna(row.last_service_date) \/ row.interval_days <= 0 THEN None
    ELSE Timestamp(row.last_service_date.v + row.interval_days)

\* The Series df.apply(next_service_date, axis=1) makes of the returned values
\* (line 47): with a Timestamp among them the column is datetime64 and every
\* None in it is NaT; without one (all None) it is an object column of None.
apply_next_service_date(rows) ==
    LET r == [i \in 1..Len(rows) |-> next_service_date(rows[i])] IN
    IF \E i \in 1..Len(r) : r[i].k = "Timestamp"
    THEN [i \in 1..Len(r) |-> IF r[i] = None THEN NaT ELSE r[i]]
    ELSE r

\* What the call of days_to_next on NaT ends in: NaT.date() - date raises.
TypeError == [k |-> "TypeError", v |-> 0]

\* days_to_next (lines 39-42): `d is None` lets NaT through.
days_to_next(d) ==
    IF d = None THEN None
    ELSE IF d = NaT THEN TypeError
    ELSE [k |-> "int", v |-> d.v - today]

HasColumn(cols, c) == \E i \in 1..Len(cols) : cols[i] = c

\* df[c] = ... : a new column goes last, an existing one is overwritten in place.
SetColumn(cols, c) == IF HasColumn(cols, c) THEN cols ELSE Append(cols, c)

\* The dtype of the Series of line 47: datetime64 when a Timestamp came back for
\* some row, object for a table whose rows all gave None; for the table with no
\* row df.apply gives no datetime column (float64; an older pandas raises at
\* line 47 instead, and the run stops all the same).
NextDtype(next) ==
    IF Len(next) = 0 THEN "float64"
    ELSE IF \E i \in 1..Len(next) : next[i].k = "Timestamp" THEN "datetime64"
    ELSE "object"

\* The module-level df (lines 44-48): the loaded table with the derived columns.
\* raised is the line at which the run has stopped with an exception, 0 when it
\* has not: line 48 raises when Series.apply hands days_to_next a NaT.
WithDerived(d) ==
    LET next == apply_next_service_date(d.rows)
        days == [i \in 1..Len(next) |-> days_to_next(next[i])]
    IN
    [columns |-> SetColumn(SetColumn(d.columns, "next_service_date"), "days_to_next"),
     rows |-> [i \in 1..Len(d.rows) |->
        [id |-> d.rows[i].id,
         name |-> d.rows[i].name,
         model |-> d.rows[i].model,
         serial |-> d.rows[i].serial,
         consumables |-> d.rows[i].consumables,
         notes |-> d.rows[i].notes,
         last_service_date |-> d.rows[i].last_service_date,
         interval_days |-> d.rows[i].interval_days,
         status |-> d.rows[i].status,
         next_service_date |-> next[i],
         days_to_next |-> days[i]]],
     next_dtype |-> NextDtype(next),
     raised |-> IF \E i \in 1..Len(days) : days[i] = TypeError THEN 48 ELSE 0]

\* df_to_save["last_service_date"].dt.strftime("%Y-%m-%d")
iso_dates(t) ==
    [columns |-> t.columns,
     rows |-> [i \in 1..Len(t.rows) |->
        [t.rows[i] EXCEPT !.last_service_date = strftime(t.rows[i].last_service_date)]]]

---------------------------------------------------------------------------
(* Filter Engine (lines 52-77) *)

\* Series.str raises on a column that is not of strings: a text column that
\* read_csv made numeric (all numbers, or all empty).  The run stops in lines 62-66.
SearchRaises(d, v) ==
    v.search # << >> /\ \E c \in TextColumns : Dtype(Column(d.rows, c)) # "object"

\* .str.lower().str.contains(s, na=False) on one cell
CellMatches(cell, s) == cell.k = "str" /\ contains(lower(cell.v), s)

\* The mask of lines 62-66 for one row: some text column contains s.
Matches(row, s) == \E c \in TextColumns : CellMatches(row[c], s)

\* The indices of the rows of `filtered` (lines 58-67).
FilteredIdx(d, v) ==
    {i \in 1..Len(d.rows) :
        /\ d.rows[i].status.k = "str"
        /\ d.rows[i].status.v \in v.status_filter
        /\ (v.search # << >> => Matches(d.rows[i], lower(v.search)))}

\* filtered (lines 58-67), in a run that got past line 48: the rows of df under the
\* sidebar's status set and search text, or the exception of the search.
filtered(d, v) ==
    LET raised == IF d.raised # 0 THEN d.raised ELSE IF SearchRaises(d, v) THEN 62 ELSE 0 IN
    [columns |-> d.columns,
     rows |-> IF raised # 0 THEN << >> ELSE Rows(d.rows, FilteredIdx(d, v)),
     next_dtype |-> d.next_dtype,
     raised |-> raised]

DateOf(row) == row.next_service_date.v

\* The rows with a next date (lines 73, 76 and 108).
Dated(rows) == Rows(rows, {i \in 1..Len(rows) : ~isna(rows[i].next_service_date)})

\* upcoming (lines 70-74): the .dt accessor of line 74 raises on a column that is
\* not datetime64.
upcoming(flt, days_range) ==
    LET horizon == today + days_range
        dated == Dated(flt.rows)
        raised == IF flt.raised # 0 THEN flt.raised
                  ELSE IF flt.next_dtype # "datetime64" THEN 74 ELSE 0
    IN [raised |-> raised,
        rows |-> IF raised # 0 THEN << >>
                 ELSE Rows(dated, {i \in 1..Len(dated) :
                            DateOf(dated[i]) >= today /\ DateOf(dated[i]) <= horizon})]

\* overdue (lines 75-77): the .dt accessor of line 77 raises likewise.
overdue(flt) ==
    LET dated == Dated(flt.rows)
        raised == IF flt.raised # 0 THEN flt.raised
                  ELSE IF flt.next_dtype # "datetime64" THEN 77 ELSE 0
    IN [raised |-> raised,
        rows |-> IF raised # 0 THEN << >>
                 ELSE Rows(dated, {i \in 1..Len(dated) : DateOf(dated[i]) < today})]

\* The line at which the run stops before the tabs are drawn (lines 44-113), 0
\* when it gets to them.
RaisedBeforeTabs(d, v) ==
    LET flt == filtered(d, v)
        up == upcoming(flt, 0)
    IN IF up.raised # 0 THEN up.raised ELSE overdue(flt).raised

PageRaises(d, v) == RaisedBeforeTabs(d, v) # 0

---------------------------------------------------------------------------
(* One script run *)

Statuses == {"active", "archived"}

\* What the widgets of the forms can return.
Names == {<< >>, <<"A">>}

\* Text fields that are filled in, one of them with digits, as a serial number is.
NumericNames == {<<"A">>, <<"0", "7">>}

Models == {<< >>, <<"x", "a">>}

\* The five text fields of a form: the name from N, the model from M, the other
\* three left empty (their default, as is the model's).
FormTexts(N, M) ==
    [name : N, model : M, serial : {<< >>}, consumables : {<< >>}, notes : {<< >>}]

Dates == {DaysFromCivil(2024, 1, 1)}

Intervals == {180}

WideIntervals == {0, 180}

\* The sidebar of a run: the status multiselect and the search box.
Views == [status_filter : SUBSET Statuses, search : {<< >>, <<"a">>}]

Ids(d) == {d.rows[i].id[1] : i \in {j \in 1..Len(d.rows) : d.rows[j].id # << >>}}

\* new_id of line 147 with the "+ 1" left out.
NewId_no_increment(d) == IF Len(d.rows) > 0 THEN Max(Ids(d)) ELSE 1

\* new_id (line 147)
NewId(d) == IF Len(d.rows) > 0 THEN Max(Ids(d)) + 1 ELSE 1

\* ids = filtered["id"].tolist() (line 175): what the selectbox offers.
SelectableIds(d, v) == Ids(filtered(d, v))

\* The run gets as far as the tabs (line 118) under some setting of the sidebar.
TabsDrawn(d) == \E v \in Views : ~PageRaises(d, v)

\* The ids some sidebar setting lets the user pick in tab_edit, in a run that
\* gets as far as tab_edit.
Pickable(d) ==
    {id \in Ids(d) : \E v \in Views : ~PageRaises(d, v) /\ id \in SelectableIds(d, v)}

\* row = df[df["id"]==selected_id].iloc[0] (line 178)
RowOf(d, id) ==
    d.rows[CHOOSE i \in 1..Len(d.rows) :
                d.rows[i].id = <<id>> /\ \A j \in 1..(i - 1) : d.rows[j].id # <<id>>]

\* A toggle that archives whatever the status was.
ToggleStatus_always_archives(cell) == "archived"

\* "archived" if row["status"]=="active" else "active" (line 190)
ToggleStatus(cell) == IF cell = Str("active") THEN "archived" ELSE "active"

\* What the last handler did: op and target id, and whether the submitted name
\* was empty.  After a toggle, snap is the loaded table before it; after a second
\* toggle of the same id in a row (twice), snap is still the table before the first.
NoOp == [op |-> "none", id |-> 0, blank |-> FALSE, twice |-> FALSE, snap |-> << >>]

Done(op, id, blank, loaded) ==
    LET second == op = "toggle" /\ last.op = "toggle" /\ last.id = id /\ ~last.twice IN
    [op |-> op, id |-> id, blank |-> blank,
     twice |-> second,
     snap |-> IF second THEN last.snap
              ELSE IF op = "toggle" THEN loaded.rows
              ELSE << >>]

\* The end of every handler: the dates to ISO text, save_data, and the run is over.
Commit(run, t, done) ==
    \E saved \in {save_data(iso_dates(t), run.cache)} :
        /\ file' = saved.file
        /\ cache' = saved.cache
        /\ last' = done
        /\ UNCHANGED <<frame, page>>

\* A run with no handler: the table is loaded (line 44); the rest of the run
\* draws the page, or stops at an exception, and writes nothing.
Rerun ==
    \E run \in {load_data(file, cache)} :
        /\ file' = run.file
        /\ cache' = run.cache
        /\ UNCHANGED <<last, frame, page>>

\* add_form submitted (lines 146-171), in a run that got as far as the tabs.
AddForm(T, D, I) ==
    \E run \in {load_data(file, cache)} : \E df \in {WithDerived(run.df)} :
    /\ Len(df.rows) < MaxRecords
    /\ TabsDrawn(df)
    /\ \E text \in T, last_service \in D, interval_days \in I, status \in Statuses :
         LET new_id == NewId(df)
             new_row == [id |-> <<new_id>>,
                         name |-> Str(strip(text.name)),
                         model |-> Str(strip(text.model)),
                         serial |-> Str(strip(text.serial)),
                         consumables |-> Str(strip(text.consumables)),
                         notes |-> Str(strip(text.notes)),
                         last_service_date |-> Timestamp(last_service),
                         interval_days |-> interval_days,
                         status |-> Str(status),
                         next_service_date |-> NaT,
                         days_to_next |-> None]   \* concat fills both with missing values
             df_new == [columns |-> df.columns, rows |-> Append(df.rows, new_row)]
         IN Commit(run, df_new, Done("add", new_id, text.name = << >>, run.df))

\* The "mark serviced" button (lines 182-187)
MarkServiced ==
    \E run \in {load_data(file, cache)} : \E df \in {WithDerived(run.df)} :
    \E selected_id \in Pickable(df) :
         LET df_to_save ==
                [columns |-> df.columns,
                 rows |-> [i \in 1..Len(df.rows) |->
                    IF df.rows[i].id = <<selected_id>>
                    THEN [df.rows[i] EXCEPT !.last_service_date = Timestamp(today)]
                    ELSE df.rows[i]]]
         IN Commit(run, df_to_save, Done("mark", selected_id, FALSE, run.df))

\* The "archive / unarchive" button (lines 189-194)
ToggleArchive ==
    \E run \in {load_data(file, cache)} : \E df \in {WithDerived(run.df)} :
    \E selected_id \in Pickable(df) :
         LET row == RowOf(df, selected_id)
             df_to_save ==
                [columns |-> df.columns,
                 rows |-> [i \in 1..Len(df.rows) |->
                    IF df.rows[i].id = <<selected_id>>
                    THEN [df.rows[i] EXCEPT !.status = Str(ToggleStatus(row.status))]
                    ELSE df.rows[i]]]
         IN Commit(run, df_to_save, Done("toggle", selected_id, FALSE, run.df))

\* edit_form submitted (lines 197-214).  number_input(min_value=0, value=...)
\* raises for a row whose interval is negative, before the submit is looked at.
EditForm(T, D, I) ==
    \E run \in {load_data(file, cache)} : \E df \in {WithDerived(run.df)} :
    \E selected_id \in Pickable(df) :
         /\ RowOf(df, selected_id).interval_days >= 0
         /\ \E text \in T, last_service_e \in D, interval_days_e \in I, status_e \in Statuses :
              LET df_to_save ==
                    [columns |-> df.columns,
                     rows |-> [i \in 1..Len(df.rows) |->
                        IF df.rows[i].id = <<selected_id>>
                        THEN [df.rows[i] EXCEPT !.name = Str(text.name),
                                                !.model = Str(text.model),
                                                !.serial = Str(text.serial),
                                                !.consumables = Str(text.consumables),
                                                !.notes = Str(text.notes),
                                                !.last_service_date = Timestamp(last_service_e),
                                                !.interval_days = interval_days_e,
                                                !.status = Str(status_e)]
                        ELSE df.rows[i]]]
              IN Commit(run, df_to_save, Done("edit", selected_id, text.name = << >>, run.df))

NoPage == [kind |-> "none"]

\* A data file the application is started on: one record, id 7, serviced on
\* 2024-01-01 with an interval of 180 days; its text fields all filled in, or
\* the name alone.
SeedFiles ==
    {[exists |-> TRUE,
      columns |-> CanonicalColumns,
      rows |-> <<[id |-> <<7>>, name |-> <<"A">>, model |-> t, serial |-> t,
                  consumables |-> t, notes |-> t,
                  last_service_date |-> <<2024, 1, 1>>,
                  interval_days |-> Num(1800), status |-> st]>>] :
        t \in Models, st \in Statuses}

\* The first run: no data file, or a data file with a record in it.
Init ==
    /\ file \in {NoFile} \cup SeedFiles
    /\ cache = NoCache
    /\ last = NoOp
    /\ frame = << >>
    /\ page = NoPage

Next ==
    \/ Rerun
    \/ AddForm(FormTexts(Names, {<< >>}), Dates, Intervals)
    \/ MarkServiced
    \/ ToggleArchive
    \/ EditForm(FormTexts(Names, {<< >>}), Dates, Intervals)

\* The application from its first run.
Spec == Init /\ [][Next]_vars

NextNumeric ==
    \/ Rerun
    \/ AddForm(FormTexts(NumericNames, {<< >>}), Dates, WideIntervals)
    \/ MarkServiced
    \/ ToggleArchive
    \/ EditForm(FormTexts(NumericNames, {<< >>}), Dates, WideIntervals)

\* The same, with users who also type digits into the text fields and set the
\* interval to 0.
SpecNumeric == Init /\ [][NextNumeric]_vars

\* A data file that was not written by the application alone (edited by hand,
\* or exported from a spreadsheet): one record, whose id may be missing, whose
\* date may be missing, whose interval may be negative, fractional, missing or no
\* number, and whose status may be misspelt or missing.
ExternalFiles ==
    {[exists |-> TRUE,
      columns |-> CanonicalColumns,
      rows |-> <<[id |-> id, name |-> <<"A">>, model |-> << >>, serial |-> << >>,
                  consumables |-> << >>, notes |-> << >>,
                  last_service_date |-> d,
                  interval_days |-> n, status |-> st]>>] :
        id \in {<< >>, <<7>>},
        d \in {<< >>, <<2024, 1, 1>>},
        n \in {Num(1800), Num(0 - 50), Num(37), Blank, Junk},
        st \in {"active", "archived", "broken", ""}}

InitExternal ==
    /\ file \in ExternalFiles
    /\ cache = NoCache
    /\ last = NoOp
    /\ frame = << >>
    /\ page = NoPage

NextExternal ==
    \/ Rerun
    \/ AddForm(FormTexts({<<"A">>}, {<< >>}), Dates, Intervals)
    \/ MarkServiced
    \/ ToggleArchive
    \/ EditForm(FormTexts({<<"A">>}, {<< >>}), Dates, Intervals)

\* The application started on such a file.
SpecExternal == InitExternal /\ [][NextExternal]_vars

---------------------------------------------------------------------------
(* The page: the views of the Filter Engine, the chart and the export *)

\* Rows of the largest table the page is computed for.
MaxRows == 2

\* dt.to_period("M").dt.to_timestamp(): the first day of the Timestamp's month.
MonthStart(ts) == LET c == CivilFromDays(ts.v) IN Timestamp(DaysFromCivil(c[1], c[2], 1))

Min(S) == CHOOSE x \in S : \A y \in S : x <= y

RECURSIVE Ascending(_)
\* The numbers of S in ascending order.
Ascending(S) == IF S = {} THEN << >> ELSE <<Min(S)>> \o Ascending(S \ {Min(S)})

\* chart_df and monthly (lines 107-111): the rows of `filtered` that have a next
\* date, counted by month; groupby gives the months that occur, in order.
monthly(flt) ==
    LET chart_df == Dated(flt.rows)
        month == [i \in 1..Len(chart_df) |-> MonthStart(chart_df[i].next_service_date)]
        months == Ascending({month[i].v : i \in 1..Len(chart_df)})
    IN [j \in 1..Len(months) |->
            [month |-> Timestamp(months[j]),
             tasks |-> Cardinality({i \in 1..Len(chart_df) : month[i] = Timestamp(months[j])})]]

\* The lambda of line 223 for one row: the next date, or pd.NaT.
export_next(r) ==
    IF ~isna(r.last_service_date) /\ r.interval_days > 0
    THEN Timestamp(r.last_service_date.v + r.interval_days)
    ELSE NaT

\* upc (lines 222-226): the rows of df, not of `filtered`, whose next date, computed
\* again, is in [today, today + horizon_days].  For the table with no row
\* upc.apply gives no datetime column and the .dt accessor of line 226 raises.
export_rows(d, horizon_days) ==
    LET next == [i \in 1..Len(d.rows) |-> export_next(d.rows[i])]
        end_date == today + horizon_days
        raised == IF d.raised # 0 THEN d.raised ELSE IF Len(d.rows) = 0 THEN 226 ELSE 0
    IN [raised |-> raised,
        rows |-> IF raised # 0 THEN << >>
                 ELSE Rows(d.rows, {i \in 1..Len(d.rows) :
                        ~isna(next[i]) /\ next[i].v >= today /\ next[i].v <= end_date})]

\* An f-string field: the text of a cell, "nan" for NaN.
format(cell) == IF cell.k = "nan" THEN <<"n", "a", "n">> ELSE cell.v

RECURSIVE ics_escape(_)
\* ics_escape (lines 231-232): a backslash before every "," and ";".
ics_escape(s) ==
    IF s = << >> THEN << >>
    ELSE IF Head(s) \in {",", ";"} THEN <<"\\", Head(s)>> \o ics_escape(Tail(s))
    ELSE <<Head(s)>> \o ics_escape(Tail(s))

\* One VEVENT (lines 234-249): the UID is the id, DTSTART the next date as
\* "%Y%m%d", SUMMARY "PPR: " and the name, DESCRIPTION the model, the
\* consumables and the notes.
vevent(r) ==
    [uid |-> r.id,
     dtstart |-> CivilFromDays(export_next(r).v),
     summary |-> ics_escape(<<"P", "P", "R", ":", " ">> \o format(r.name)),
     description |-> <<ics_escape(format(r.model)), ics_escape(format(r.consumables)),
                       ics_escape(format(r.notes))>>]

\* The days-ahead slider, and the horizon field of the export tab (min_value=1).
DayRanges == {0, 11}

Horizons == {1, 11}

\* A record of the data file by its schedule: no date, no interval, negative
\* interval, due on 2024-06-09, yesterday (2024-06-19), today, on 2024-07-01.
Schedules ==
    {[last_service_date |-> << >>, interval_days |-> Num(1800)],
     [last_service_date |-> <<2024, 1, 1>>, interval_days |-> Num(0)],
     [last_service_date |-> <<2024, 1, 1>>, interval_days |-> Num(0 - 50)],
     [last_service_date |-> <<2024, 1, 1>>, interval_days |-> Num(1600)],
     [last_service_date |-> <<2024, 1, 1>>, interval_days |-> Num(1700)],
     [last_service_date |-> <<2024, 1, 1>>, interval_days |-> Num(1710)],
     [last_service_date |-> <<2024, 1, 1>>, interval_days |-> Num(1820)]}

\* A record of the data file by its text cells: every field filled in and the
\* name matching the search "a"; the model alone matching it, the other fields
\* empty; the name alone filled in and not matching.
Profiles ==
    {[name |-> <<"A">>, model |-> <<"m">>, serial |-> <<"s">>,
      consumables |-> <<"c">>, notes |-> <<"n">>],
     [name |-> <<"B">>, model |-> <<"x", "a">>, serial |-> << >>,
      consumables |-> << >>, notes |-> << >>],
     [name |-> <<"B">>, model |-> << >>, serial |-> << >>,
      consumables |-> << >>, notes |-> << >>]}

\* A data file of n records: ids 1..n, the text cells, schedule and status of
\* each record as given.
FileOf(n, pr, sch, st) ==
    [exists |-> TRUE,
     columns |-> CanonicalColumns,
     rows |-> [i \in 1..n |->
        [id |-> <<i>>,
         name |-> pr[i].name,
         model |-> pr[i].model,
         serial |-> pr[i].serial,
         consumables |-> pr[i].consumables,
         notes |-> pr[i].notes,
         last_service_date |-> sch[i].last_service_date,
         interval_days |-> sch[i].interval_days,
         status |-> st[i]]]]

RECURSIVE sort_values(_)
\* sort_values("next_service_date") (lines 86 and 97) of rows that all have a
\* next date: ascending, rows of one date in table order.
sort_values(rows) ==
    IF rows = << >> THEN << >>
    ELSE LET m == Min({DateOf(rows[i]) : i \in 1..Len(rows)})
             j == Min({i \in 1..Len(rows) : DateOf(rows[i]) = m})
         IN <<rows[j]>> \o sort_values(Rows(rows, (1..Len(rows)) \ {j}))

\* A run with no handler (lines 44-254) for one setting of the sidebar and of the
\* export tab: the table is loaded; then the views as they are shown, the chart
\* and the export, or the exception that ends the run, with the line that raised.
Render ==
    \E run \in {load_data(file, cache)} :
    \E df \in {WithDerived(run.df)} :
    \E v \in Views, days_range \in DayRanges, horizon_days \in Horizons :
        LET flt == filtered(df, v)
            up == upcoming(flt, days_range)
            over == overdue(flt)
            upc == export_rows(df, horizon_days)
            line == IF up.raised # 0 THEN up.raised
                    ELSE IF over.raised # 0 THEN over.raised
                    ELSE upc.raised
        IN /\ file' = run.file
           /\ cache' = run.cache
           /\ frame' = run.df.rows
           /\ page' = IF line # 0
                      THEN [kind |-> "error", line |-> line, horizon_days |-> horizon_days]
                      ELSE [kind |-> "page", line |-> 0, view |-> v,
                            days_range |-> days_range, horizon_days |-> horizon_days,
                            upcoming |-> sort_values(up.rows),
                            overdue |-> sort_values(over.rows),
                            monthly |-> monthly(flt),
                            notice |-> upc.rows = << >>,
                            events |-> [i \in 1..Len(upc.rows) |-> vevent(upc.rows[i])]]
           /\ UNCHANGED last

\* No data file, or any data file of up to MaxRows records; nothing cached, the
\* page not drawn yet.
InitPage ==
    /\ \/ file = NoFile
       \/ \E n \in 0..MaxRows :
            \E pr \in [1..n -> Profiles], sch \in [1..n -> Schedules], st \in [1..n -> Statuses] :
                file = FileOf(n, pr, sch, st)
    /\ cache = NoCache
    /\ last = NoOp
    /\ frame = << >>
    /\ page = NoPage

NextPage == Render

\* The page computed for every loaded table of up to MaxRows records.
SpecPage == InitPage /\ [][NextPage]_vars

---------------------------------------------------------------------------
(* Properties of the table *)

\* The rows the next load_data returns for the file as it stands.
Loaded(f) == read_csv(IF f.exists THEN f ELSE EmptyFile).rows

IdSeq(rows) == [i \in 1..Len(rows) |-> rows[i].id]

\* A step leaves the ids as they are, row by row, or is an Add that appends
\* max(id) + 1 (1 on an empty table); the ids after it are pairwise distinct.
IdStep ==
    \E a \in {IdSeq(Loaded(file))}, b \in {IdSeq(Loaded(file'))} :
       /\ \/ b = a
          \/ /\ last'.op = "add"
             /\ b = Append(a, <<IF Len(a) = 0 THEN 1 ELSE Max({a[i][1] : i \in 1..Len(a)}) + 1>>)
             /\ last'.id = b[Len(b)][1]
       /\ \A i, j \in 1..Len(b) : i # j => b[i] # b[j]

\* C1: the ids of the records are pairwise distinct after any sequence of
\* handlers, no handler changes the id of a record, and Add gives the new record
\* max(existing id) + 1, or 1 on an empty table.
C1_UniqueIds == [][IdStep]_vars

\* An Add has happened on the table whose one record has id 7: the new record
\* has id 8, the work of line 147.
C1_Witness ==
    /\ last.op = "add"
    /\ last.id = 8
    /\ IdSeq(Loaded(file)) = <<<<7>>, <<8>>>>

\* A handler step: every handler ends in save_data, which leaves the cache empty.
HandlerStep == ~cache'.valid /\ last'.op # "none" /\ <<file, last>> # <<file', last'>>

\* C2: an Add or Edit form submitted with an empty name is rejected: the
\* persisted rows are left as they were.
C2_EmptyNameRejected ==
    [][(HandlerStep /\ last'.op \in {"add", "edit"} /\ last'.blank)
          => Loaded(file') = Loaded(file)]_vars

\* C4: whatever load_data has cached is what reading the file now returns: no
\* load after a save returns a table that was cached before that save.
C4_CacheCoherent ==
    cache.valid =>
        /\ file.exists
        /\ [columns |-> cache.columns, rows |-> cache.rows] = read_csv(file)

\* A load has followed a save: the cache holds the table a handler wrote.
C4_Witness == cache.valid /\ last.op # "none" /\ Len(cache.rows) > 0

\* The text fields compare by their text, the others by value.
SameRecord(r, q) ==
    /\ r.id = q.id
    /\ \A c \in TextColumns : r[c].v = q[c].v
    /\ r.last_service_date = q.last_service_date
    /\ r.interval_days = q.interval_days
    /\ r.status.v = q.status.v

\* C5: a handler works on the full table.  After Mark-Serviced, Toggle-Archive or
\* Edit of a target id the table holds the same ids, every other record is as it
\* was in all fields, and for Mark-Serviced the target's date is today and its
\* other fields are as they were; after Add every earlier record is as it was.
C5_FrameStep ==
    \E a \in {Loaded(file)}, b \in {Loaded(file')} :
    HandlerStep =>
        /\ last'.op \in {"mark", "toggle", "edit"} =>
              /\ IdSeq(b) = IdSeq(a)
              /\ \A i \in 1..Len(a) : a[i].id # <<last'.id>> => SameRecord(a[i], b[i])
        /\ last'.op = "mark" =>
              \A i \in 1..Len(a) : a[i].id = <<last'.id>> =>
                  /\ b[i].last_service_date = Timestamp(today)
                  /\ SameRecord([a[i] EXCEPT !.last_service_date = Timestamp(today)], b[i])
        /\ last'.op = "add" =>
              /\ Len(b) = Len(a) + 1
              /\ \A i \in 1..Len(a) : SameRecord(a[i], b[i])

C5_FullTable == [][C5_FrameStep]_vars

\* C8: the derived fields are never persisted: the file has exactly the ten
\* columns of the record.
C8_CanonicalColumns == file.exists => file.columns = CanonicalColumns

\* C6: two Toggle-Archive in a row on one id (each in its own run, so with a
\* reload between them) give back the table as it was loaded before the first:
\* the status of the record, whatever it was, and every other field of every record.
C6_ToggleTwice == (last.op = "toggle" /\ last.twice) => Loaded(file) = last.snap

\* The second toggle has just run on a record.
C6_Witness ==
    /\ last.op = "toggle"
    /\ last.twice
    /\ \E i \in 1..Len(last.snap) : last.snap[i].id = <<last.id>>

\* C9: every loaded record has an integer interval_days >= 0, whatever the
\* interval_days cell of the file holds.
C9_IntervalNonNegative ==
    cache.valid => \A i \in 1..Len(cache.rows) : cache.rows[i].interval_days >= 0

---------------------------------------------------------------------------
(* Properties of the page *)

\* The next service date as the data model defines it: last_service_date +
\* interval_days when the date is present and the interval positive.
Computable(r) == ~isna(r.last_service_date) /\ r.interval_days > 0

Due(r) == r.last_service_date.v + r.interval_days

IdsOf(rows) == {rows[i].id : i \in 1..Len(rows)}

\* C3: every record of Upcoming has a next date d with today <= d <= today + H,
\* every record of Overdue one with d < today, no record is in both; and for a
\* table with a record of interval_days = 0 or no last_service_date the views
\* are there and the record is in neither.
C3_Views ==
    /\ page.kind = "page" =>
        /\ \A i \in 1..Len(page.upcoming) :
              LET r == page.upcoming[i] IN
              Computable(r) /\ today <= Due(r) /\ Due(r) <= today + page.days_range
        /\ \A i \in 1..Len(page.overdue) :
              LET r == page.overdue[i] IN Computable(r) /\ Due(r) < today
        /\ IdsOf(page.upcoming) \cap IdsOf(page.overdue) = {}
    /\ page.kind # "none" =>
        \A i \in 1..Len(frame) :
            (frame[i].interval_days = 0 \/ isna(frame[i].last_service_date)) =>
                /\ page.kind = "page"
                /\ frame[i].id \notin IdsOf(page.upcoming) \cup IdsOf(page.overdue)

\* The records the export is to select, in table order.
Qualifying(horizon_days) ==
    Rows(frame, {i \in 1..Len(frame) :
        Computable(frame[i]) /\ today <= Due(frame[i]) /\ Due(frame[i]) <= today + horizon_days})

\* C7: the export has exactly one event for each record whose next date is in
\* [today, today + horizon], none for another record, whatever the sidebar says;
\* with no such record it shows the notice and has no event, and is no error.
C7_Export ==
    page.kind # "none" =>
        LET q == Qualifying(page.horizon_days) IN
        /\ page.kind = "page" =>
              /\ Len(page.events) = Len(q)
              /\ \A i \in 1..Len(q) :
                    /\ page.events[i].uid = q[i].id
                    /\ page.events[i].dtstart = CivilFromDays(Due(q[i]))
              /\ page.notice <=> q = << >>
        /\ q = << >> => page.kind = "page"

\* C10: the chart counts the Upcoming records by month: a month is in the series
\* iff an Upcoming record falls in it, with the number of those records.
C10_ChartOfUpcoming ==
    page.kind = "page" =>
        LET up == page.upcoming
            monthOf == [i \in 1..Len(up) |-> MonthStart(up[i].next_service_date)]
        IN /\ \A j \in 1..Len(page.monthly) :
                 page.monthly[j].tasks =
                    Cardinality({i \in 1..Len(up) : monthOf[i] = page.monthly[j].month})
           /\ \A i \in 1..Len(up) :
                 \E j \in 1..Len(page.monthly) : page.monthly[j].month = monthOf[i]
           /\ \A j \in 1..Len(page.monthly) : page.monthly[j].tasks >= 1

====
